---- MODULE Spec2Model ----
(***************************************************************************)
(* A model of rts/Game/Camera.cpp (CCamera).                               *)
(*                                                                         *)
(* Numbers.  The code computes in float.  The model computes exactly:      *)
(*   - a scalar is an integer or a rational [n, d] in lowest terms;        *)
(*   - an angle is a whole number of quarter turns (HALFPI = 1), so sin    *)
(*     and cos are exact and forward/right/up are axis unit vectors;       *)
(*   - a normalised vector v/|v| is held as the primitive integer vector   *)
(*     of the same direction; tests on it that depend on its length        *)
(*     (dot > radius, |z| < 0.001) are made exactly by comparing squares.  *)
(* Rounding of float arithmetic is therefore not modelled.                 *)
(*                                                                         *)
(* The matrices written by UpdateMatrices (projection, view, inverses,     *)
(* billboard) are not part of the state: no operation modelled here reads  *)
(* them.                                                                   *)
(***************************************************************************)
EXTENDS Integers, Sequences, FiniteSets, TLC

VARIABLES cams, zNear, viewRange, env, ret, hist

vars == <<cams, zNear, viewRange, env, ret, hist>>

None == "none"

----------------------------------------------------------------------------
(* Scalars                                                                 *)

Abs(x) == IF x < 0 THEN -x ELSE x

Sgn(x) == IF x < 0 THEN -1 ELSE IF x > 0 THEN 1 ELSE 0

MaxI(a, b) == IF a >= b THEN a ELSE b

MinI(a, b) == IF a <= b THEN a ELSE b

RECURSIVE GCD(_, _)
GCD(a, b) == IF b = 0 THEN a ELSE GCD(b, a % b)

(* rational n/d, d # 0, in lowest terms with a positive denominator *)
Rat(n, d) ==
    LET g == GCD(Abs(n), Abs(d))
        s == IF d < 0 THEN -1 ELSE 1
    IN  [n |-> s * (n \div g), d |-> s * (d \div g)]

RInt(k) == [n |-> k, d |-> 1]

RAdd(a, b) ==
    LET g == GCD(a.d, b.d)
    IN  Rat(a.n * (b.d \div g) + b.n * (a.d \div g), (a.d \div g) * b.d)

RSub(a, b) ==
    LET g == GCD(a.d, b.d)
    IN  Rat(a.n * (b.d \div g) - b.n * (a.d \div g), (a.d \div g) * b.d)

RMul(a, b) ==
    LET g1 == GCD(Abs(a.n), b.d)
        g2 == GCD(Abs(b.n), a.d)
    IN  Rat((a.n \div g1) * (b.n \div g2), (a.d \div g2) * (b.d \div g1))

(* b # 0 *)
RDiv(a, b) ==
    RMul(a, IF b.n < 0 THEN [n |-> -b.d, d |-> -b.n] ELSE [n |-> b.d, d |-> b.n])

RNeg(a) == [n |-> -a.n, d |-> a.d]

RLt(a, b) ==
    LET g == GCD(a.d, b.d)
    IN  a.n * (b.d \div g) < b.n * (a.d \div g)

RLe(a, b) == ~RLt(b, a)

RMax(a, b) == IF RLt(a, b) THEN b ELSE a

(* math::sqrt, rounded down to an integer *)
RECURSIVE SqrtIn(_, _, _)
SqrtIn(n, lo, hi) ==
    IF lo >= hi THEN lo
    ELSE LET mid == (lo + hi + 1) \div 2
         IN  IF mid * mid <= n THEN SqrtIn(n, mid, hi) ELSE SqrtIn(n, lo, mid - 1)

Sqrt(n) == SqrtIn(n, 0, MinI(n, 46340))

Square(x) == x * x

----------------------------------------------------------------------------
(* float3                                                                  *)

ZeroVector == <<0, 0, 0>>
UpVector   == <<0, 1, 0>>
RgtVector  == <<1, 0, 0>>
FwdVector  == <<0, 0, 1>>

VAdd(a, b) == <<a[1] + b[1], a[2] + b[2], a[3] + b[3]>>

VSub(a, b) == <<a[1] - b[1], a[2] - b[2], a[3] - b[3]>>

VScale(a, k) == <<a[1] * k, a[2] * k, a[3] * k>>

VNeg(a) == <<-a[1], -a[2], -a[3]>>

Dot(a, b) == a[1] * b[1] + a[2] * b[2] + a[3] * b[3]

Cross(a, b) ==
    << a[2] * b[3] - a[3] * b[2],
       a[3] * b[1] - a[1] * b[3],
       a[1] * b[2] - a[2] * b[1] >>

SqLength(a) == Dot(a, a)

(* v/|v| as the primitive integer vector of v's direction; the zero vector
   stays the zero vector *)
Normalize(v) ==
    LET g == GCD(GCD(Abs(v[1]), Abs(v[2])), Abs(v[3]))
    IN  IF g = 0 THEN v ELSE <<v[1] \div g, v[2] \div g, v[3] \div g>>

----------------------------------------------------------------------------
(* Collaborators: global rendering settings, map, camera registry          *)

MAX_VIEW_RANGE == 8000

NEAR_PLANE == Rat(28, 10)

SQUARE_SIZE == 8

MapX == 512

MapY == 512

maxxpos == MapX * SQUARE_SIZE - 1

maxzpos == MapY * SQUARE_SIZE - 1

FRUSTUM_PLANE_CNT == 4

FRUSTUM_PLANE_TOP == 1
FRUSTUM_PLANE_BOT == 2
FRUSTUM_PLANE_RGT == 3
FRUSTUM_PLANE_LFT == 4

CAMTYPE_PLAYER == "PLAYER"
CAMTYPE_SHADOW == "SHADOW"
CAMTYPE_VISCUL == "VISCUL"
CAMTYPE_ENVMAP == "ENVMAP"

CamTypeSet == {CAMTYPE_PLAYER, CAMTYPE_SHADOW, CAMTYPE_VISCUL, CAMTYPE_ENVMAP}

(* the camera instances: one per role *)
Cameras == {"camP", "camS", "camV", "camE"}

(* CCamera::camTypes, once every role's camera is registered *)
camTypes ==
    [t \in CamTypeSet |->
        CASE t = CAMTYPE_PLAYER -> "camP"
          [] t = CAMTYPE_SHADOW -> "camS"
          [] t = CAMTYPE_VISCUL -> "camV"
          [] t = CAMTYPE_ENVMAP -> "camE"]

(* the role each instance is constructed with *)
CtorType(c) == CHOOSE t \in CamTypeSet : camTypes[t] = c

----------------------------------------------------------------------------
(* Angles, in quarter turns                                                *)

SinQ(k) == CASE k % 4 = 0 -> 0 [] k % 4 = 1 -> 1 [] k % 4 = 2 -> 0 [] OTHER -> -1

CosQ(k) == SinQ(k + 1)

(* math::acos of -1, 0, 1 *)
AcosQ(y) == CASE y = 1 -> 0 [] y = 0 -> 1 [] OTHER -> 2

(* math::atan2(a, b) on axis values; b = 0 stands for the -0.0 that
   GetRotFromDir passes (-fwd.z with fwd.z = +0.0), where atan2(0, -0) = PI *)
Atan2Q(a, b) ==
    CASE a > 0 -> 1
      [] a < 0 -> -1
      [] b > 0 -> 0
      [] OTHER -> 2

(* math::tan(halfFov) for the fields of view used here; tan(22.5 deg) =
   0.41421.. is held as the rational 5/12 *)
TanHalf(fov) == CASE fov = 90 -> Rat(1, 1) [] fov = 45 -> Rat(5, 12) [] OTHER -> Rat(1, 2)

GetRotFromDir(fwd) ==
    LET f == Normalize(fwd)
    IN  <<AcosQ(f[2]), Atan2Q(f[1], -f[3]), 0>>

GetFwdFromRot(r) ==
    << SinQ(r[1]) * SinQ(r[2]),
       CosQ(r[1]),
       SinQ(r[1]) * (-CosQ(r[2])) >>

GetRgtFromRot(r) ==
    << SinQ(1 - r[3]) * SinQ(r[2] + 1),
       CosQ(1 - r[3]),
       SinQ(1 - r[3]) * (-CosQ(r[2] + 1)) >>

UpdateDirsFromRot(cam, r) ==
    LET f == GetFwdFromRot(r)
        g == GetRgtFromRot(r)
    IN  [cam EXCEPT !.forward = f, !.right = g, !.up = Normalize(Cross(g, f))]

----------------------------------------------------------------------------
(* Inputs                                                                  *)

MaxRadius == 1

(* the number of operations in a run of the camera system *)
MaxOps == 3

(* the number of operations in a run that builds and clips a footprint *)
MaxSideOps == 4

(* the number of lines of a drawn sequence, and of calls that clip it *)
MaxLines == 3

MaxClipCalls == 1

(* arguments of GetFrustumSides: <<miny, maxy, scale>> *)
SideArgs == {<<0, 200, 8>>, <<-100, 500, 1>>}

(* arguments of ClipFrustumLines: <<zmin, zmax>> *)
ClipArgs == {<<-512, 4608>>, <<0, 8>>, <<8, 0>>}

Positions == {<<2048, 1000, 2048>>, <<0, 5000, 0>>}

Dirs == {<<0, -1, 0>>, <<0, 0, -1>>}

Fovs == {45, 90}

MinHeights == {-100, 500}

Radii == 0..MaxRadius

(* points are given relative to a camera position *)
Offsets == {<<0, 0, 0>>, <<9000, 0, 0>>, <<0, -9000, 0>>, <<0, 0, -9000>>}

DefaultEnv ==
    [ viewSizeX |-> 1000, viewSizeY |-> 1000, dualScreenMode |-> FALSE,
      lastx |-> 500, lasty |-> 500, lastFrameTime |-> 1,
      EdgeMoveWidth |-> Rat(2, 100), EdgeMoveDynamic |-> TRUE ]

----------------------------------------------------------------------------
(* CCamera                                                                 *)

NoMove == [k \in {"FWD", "BCK", "LFT", "RGT", "UP", "DWN", "FST", "SLW"} |-> 0]

(* no movement vector has been asked for *)
NoRet == [op |-> None, v |-> <<>>]

SetFov(cam, myfov) ==
    [cam EXCEPT !.fov = myfov, !.tanHalfFov = TanHalf(myfov)]

(* CCamera::CCamera(cameraType); float3 members not named in the
   initialiser list (right, frustumPlanes) are zero vectors *)
NewCamera(cameraType) ==
    SetFov(
      [ pos |-> <<(MapX * SQUARE_SIZE) \div 2, 1000, (MapY * SQUARE_SIZE) \div 2>>,
        rot |-> ZeroVector,
        forward |-> RgtVector,
        right |-> ZeroVector,
        up |-> UpVector,
        fov |-> 0,
        tanHalfFov |-> RInt(0),
        lppScale |-> RInt(0),
        camType |-> cameraType,
        frustumPlanes |-> [i \in 1..FRUSTUM_PLANE_CNT |-> ZeroVector],
        viewport |-> <<0, 0, 0, 0>>,
        movState |-> NoMove,
        posFrustumSides |-> <<>>,
        negFrustumSides |-> <<>> ],
      45)

CopyState(dst, cam) ==
    [dst EXCEPT !.frustumPlanes = cam.frustumPlanes,
                !.forward = cam.forward,
                !.right = cam.right,
                !.up = cam.up,
                !.pos = cam.pos,
                !.rot = cam.rot,
                !.lppScale = cam.lppScale,
                !.camType = cam.camType]

(* the four plane normals of lines 101-107; the viewport is square
   (aspectRatio = 1), so tan(aspectRatio * halfFov) = tanHalfFov *)
FrustumPlanesOf(cam) ==
    LET t == cam.tanHalfFov
        forwardy == VScale(VNeg(cam.forward), t.n)
        forwardx == VScale(VNeg(cam.forward), t.n)
    IN  [i \in 1..FRUSTUM_PLANE_CNT |->
           CASE i = FRUSTUM_PLANE_TOP -> Normalize(VAdd(forwardy, VScale(cam.up, t.d)))
             [] i = FRUSTUM_PLANE_BOT -> Normalize(VSub(forwardy, VScale(cam.up, t.d)))
             [] i = FRUSTUM_PLANE_RGT -> Normalize(VAdd(forwardx, VScale(cam.right, t.d)))
             [] OTHER                 -> Normalize(VSub(forwardx, VScale(cam.right, t.d)))]

(* variant: the state copied is always the player camera's *)
CopySourcePlayer(cs, c) == camTypes[CAMTYPE_PLAYER]

(* the camera whose state UpdateFrustum copies into the culling camera *)
CopySource(cs, c) == camTypes[cs[c].camType]

(* CCamera::UpdateFrustum run by camera c, on all cameras cs *)
UpdateFrustum(cs, c) ==
    LET cs1 == [cs EXCEPT ![c].frustumPlanes = FrustumPlanesOf(cs[c])]
    IN  IF cs1[c].camType = CAMTYPE_PLAYER \/ cs1[c].camType = CAMTYPE_SHADOW
        THEN [cs1 EXCEPT ![camTypes[CAMTYPE_VISCUL]] = CopyState(@, cs1[CopySource(cs1, c)])]
        ELSE cs1

(* CCamera::ComputeViewRange: the new globals zNear and viewRange *)
WantedViewRange(pos, forward, minHeight) ==
    LET azimuthCos == Dot(forward, UpVector)
        maxDistToBorderX == MaxI(pos[1], maxxpos - pos[1])
        maxDistToBorderZ == MaxI(pos[3], maxzpos - pos[3])
        minViewRange == (1 - azimuthCos) *
                        Sqrt(Square(maxDistToBorderX) + Square(maxDistToBorderZ))
        w1 == RMax(RInt(MAX_VIEW_RANGE),
                   RMul(RInt(pos[2] - MaxI(0, minHeight)), Rat(24, 10)))
    IN  RMax(w1, RInt(minViewRange))

(* variant: the near plane is left at its reference value *)
ComputeViewRangeFixedNear(cam, minHeight) ==
    LET wantedViewRange == WantedViewRange(cam.pos, cam.forward, minHeight)
        factor == RDiv(wantedViewRange, RInt(MAX_VIEW_RANGE))
    IN  [ zNear |-> NEAR_PLANE,
          viewRange |-> RMul(RInt(MAX_VIEW_RANGE), factor) ]

(* variant: the far range is left at its reference value *)
ComputeViewRangeFixedFar(cam, minHeight) ==
    LET wantedViewRange == WantedViewRange(cam.pos, cam.forward, minHeight)
        factor == RDiv(wantedViewRange, RInt(MAX_VIEW_RANGE))
    IN  [ zNear |-> RMul(NEAR_PLANE, factor),
          viewRange |-> RInt(MAX_VIEW_RANGE) ]

ComputeViewRange(cam, minHeight) ==
    LET wantedViewRange == WantedViewRange(cam.pos, cam.forward, minHeight)
        factor == RDiv(wantedViewRange, RInt(MAX_VIEW_RANGE))
    IN  [ zNear |-> RMul(NEAR_PLANE, factor),
          viewRange |-> RMul(RInt(MAX_VIEW_RANGE), factor) ]

LppScale(cam, e) ==
    IF e.viewSizeY <= 0 THEN RInt(0)
    ELSE RDiv(RMul(RInt(2), cam.tanHalfFov), RInt(e.viewSizeY))

(* the copied part of a camera's state *)
Snap(cam) ==
    [ frustumPlanes |-> cam.frustumPlanes, forward |-> cam.forward,
      right |-> cam.right, up |-> cam.up, pos |-> cam.pos, rot |-> cam.rot ]

IsDriver(cam) == cam.camType = CAMTYPE_PLAYER \/ cam.camType = CAMTYPE_SHADOW

(* history: the number of operations; the camera of driving role that last ran
   UpdateFrustum with its state at the end of that run; the inputs of the
   last ComputeViewRange; the calls of GetFrustumSides; the calls of
   ClipFrustumLines, the last one's arguments and the two sequences before it *)
NoHist ==
    [ n |-> 0, fsCam |-> None, fsSnap |-> None,
      vrIn |-> [cam |-> None, pos |-> ZeroVector, forward |-> ZeroVector, minHeight |-> 0],
      sides |-> [n |-> 0, negSide |-> FALSE],
      clip |-> [n |-> 0, neg |-> FALSE, zmin |-> 0, zmax |-> 0, ordered |-> TRUE,
                lines |-> <<>>, other |-> <<>>] ]

(* one more operation *)
Did(h) == [h EXCEPT !.n = @ + 1]

Extraction(h, cs, cs1, c) ==
    IF IsDriver(cs[c])
    THEN [h EXCEPT !.fsCam = c, !.fsSnap = Snap(cs1[c])]
    ELSE h

(* CCamera::Update(updateDirs) *)
Update(c, updateDirs, minHeight) ==
    LET cam1 == IF updateDirs THEN UpdateDirsFromRot(cams[c], cams[c].rot) ELSE cams[c]
        cam2 == [cam1 EXCEPT !.lppScale = LppScale(cam1, env)]
        vr   == ComputeViewRange(cam2, minHeight)
        cs1  == [cams EXCEPT ![c] = cam2]
        cs2  == UpdateFrustum(cs1, c)
        cs3  == [cs2 EXCEPT ![c].viewport = <<0, 0, env.viewSizeX, env.viewSizeY>>]
    IN  /\ cams' = cs3
        /\ zNear' = vr.zNear
        /\ viewRange' = vr.viewRange
        /\ hist' = [Did(Extraction(hist, cs1, cs2, c)) EXCEPT
                      !.vrIn = [cam |-> c, pos |-> cam2.pos, forward |-> cam2.forward,
                                minHeight |-> minHeight]]
        /\ UNCHANGED <<env, ret>>

SetFovStep(c, myfov) ==
    /\ cams' = [cams EXCEPT ![c] = SetFov(@, myfov)]
    /\ hist' = Did(hist)
    /\ UNCHANGED <<zNear, viewRange, env, ret>>

(* CCamera::SetRot (Camera.h): store the rotation, rebuild the basis *)
SetRot(cam, r) == UpdateDirsFromRot([cam EXCEPT !.rot = r], r)

SetDir(cam, dir) ==
    SetRot(cam, VAdd(GetRotFromDir(dir), VScale(FwdVector, cam.rot[3])))

SetDirStep(c, dir) ==
    /\ cams' = [cams EXCEPT ![c] = SetDir(@, dir)]
    /\ hist' = Did(hist)
    /\ UNCHANGED <<zNear, viewRange, env, ret>>

(* CCamera::SetPos (Camera.h) *)
SetPos(cam, p) == [cam EXCEPT !.pos = p]

SetPosStep(c, p) ==
    /\ cams' = [cams EXCEPT ![c] = SetPos(@, p)]
    /\ hist' = Did(hist)
    /\ UNCHANGED <<zNear, viewRange, env, ret>>

----------------------------------------------------------------------------
(* Visibility tests                                                        *)

AABBInOriginPlane(plane, camPos, mins, maxs) ==
    LET fp == << IF plane[1] > 0 THEN mins[1] ELSE maxs[1],
                 IF plane[2] > 0 THEN mins[2] ELSE maxs[2],
                 IF plane[3] > 0 THEN mins[3] ELSE maxs[3] >>
    IN  Dot(plane, VSub(fp, camPos)) < 0

(* CCamera::InView(mins, maxs) *)
InViewBox(cam, mins, maxs) ==
    \A i \in 1..FRUSTUM_PLANE_CNT :
        AABBInOriginPlane(cam.frustumPlanes[i], cam.pos, mins, maxs)

(* vec.dot(plane / |plane|) > radius, with plane the primitive vector of a
   unit normal: a > radius * sqrt(l2), decided on the squares (sqrt(l2) <= l2
   settles the large values of a) *)
DotExceeds(vec, plane, radius) ==
    LET a  == Dot(vec, plane)
        l2 == SqLength(plane)
    IN  IF radius >= 0
        THEN /\ a > 0
             /\ \/ radius = 0
                \/ a > radius * l2
                \/ a * a > radius * radius * l2
        ELSE \/ a >= 0
             \/ /\ -a < (-radius) * l2
                /\ a * a < radius * radius * l2

(* CCamera::InView(p, radius), with the global viewRange it reads *)
InViewSphere(cam, globalViewRange, p, radius) ==
    LET vec == VSub(p, cam.pos)
        reach == RAdd(globalViewRange, RInt(radius))
    IN  /\ \A i \in 1..FRUSTUM_PLANE_CNT : ~DotExceeds(vec, cam.frustumPlanes[i], radius)
        /\ RLe(RInt(SqLength(vec)), RMul(reach, reach))

----------------------------------------------------------------------------
(* Frustum footprint                                                       *)

(* CCamera::ClearFrustumSides (Camera.h) *)
ClearFrustumSides(cam) ==
    [cam EXCEPT !.posFrustumSides = <<>>, !.negFrustumSides = <<>>]

(* variant: a line is filed by its sign alone *)
FiledBySign(line, negSide) == line.sign = 1

(* where GetFrustumSide files a line *)
FiledNegative(line, negSide) == line.sign = 1 \/ negSide

(* CCamera::GetFrustumSide; zdir is the primitive vector of a unit normal,
   xdir and ydir are held unnormalised (the quotients taken of them do not
   depend on their length) *)
GetFrustumSide(cam, zdir, offset, miny, maxy, scale, upwardDir, negSide) ==
    LET xdir == Cross(zdir, UpVector)
        ydir == Cross(zdir, xdir)
        len2 == SqLength(xdir)
        (* fabs(xdir.z) < 0.001 for the normalised xdir *)
        small == len2 = 0 \/ Square(xdir[3]) * 1000000 < len2
        h == IF upwardDir THEN miny ELSE maxy
        base0 == VAdd(cam.pos, offset)
        t == Rat(cam.pos[2] - h, IF ydir[2] # 0 THEN ydir[2] ELSE 1)
        pIntX == IF ydir[2] # 0 THEN RSub(RInt(base0[1]), RMul(RInt(ydir[1]), t)) ELSE RInt(0)
        pIntZ == IF ydir[2] # 0 THEN RSub(RInt(base0[3]), RMul(RInt(ydir[3]), t)) ELSE RInt(0)
        dir == IF small
               THEN (IF len2 = 0 THEN RInt(0) ELSE Rat(1000 * xdir[1], Sqrt(len2)))
               ELSE Rat(xdir[1], xdir[3])
        line == [ dir  |-> dir,
                  base |-> RDiv(RSub(pIntX, RMul(pIntZ, dir)), RInt(scale)),
                  sign |-> IF ~small /\ xdir[3] <= 0 THEN 1 ELSE -1,
                  minz |-> RInt(0 - MapY),
                  maxz |-> RInt(MapY * SQUARE_SIZE + MapY) ]
    IN  IF FiledNegative(line, negSide)
        THEN [cam EXCEPT !.negFrustumSides = Append(@, line)]
        ELSE [cam EXCEPT !.posFrustumSides = Append(@, line)]

RECURSIVE GetFrustumSidesFrom(_, _, _, _, _, _)
GetFrustumSidesFrom(cam, i, miny, maxy, scale, negSide) ==
    IF i > FRUSTUM_PLANE_CNT THEN cam
    ELSE GetFrustumSidesFrom(
           GetFrustumSide(cam, cam.frustumPlanes[i], ZeroVector, miny, maxy, scale,
                          cam.frustumPlanes[i][2] > 0, negSide),
           i + 1, miny, maxy, scale, negSide)

(* CCamera::GetFrustumSides *)
GetFrustumSides(cam, miny, maxy, scale, negSide) ==
    GetFrustumSidesFrom(ClearFrustumSides(cam), 1, miny, maxy, scale, negSide)

(* variant: the bound is chosen by the sign of fli, not of fli2 *)
ClipPairOwnSign(lines, i, j, zmin, zmax) ==
    IF i = j THEN lines
    ELSE LET dbase == RSub(lines[i].base, lines[j].base)
             ddir  == RSub(lines[i].dir, lines[j].dir)
         IN  IF ddir.n = 0 THEN lines
             ELSE LET colz == RNeg(RDiv(dbase, ddir))
                  IN  IF lines[i].sign * ddir.n > 0
                      THEN (IF RLt(lines[i].minz, colz) /\ RLt(colz, RInt(zmax))
                            THEN [lines EXCEPT ![i].minz = colz] ELSE lines)
                      ELSE (IF RLt(colz, lines[i].maxz) /\ RLt(RInt(zmin), colz)
                            THEN [lines EXCEPT ![i].maxz = colz] ELSE lines)

(* variant: a crossing is taken as zMin or zMax without comparing it to the
   line's present bound *)
ClipPairLoose(lines, i, j, zmin, zmax) ==
    IF i = j THEN lines
    ELSE LET dbase == RSub(lines[i].base, lines[j].base)
             ddir  == RSub(lines[i].dir, lines[j].dir)
         IN  IF ddir.n = 0 THEN lines
             ELSE LET colz == RNeg(RDiv(dbase, ddir))
                  IN  IF lines[j].sign * ddir.n > 0
                      THEN (IF RLt(colz, RInt(zmax))
                            THEN [lines EXCEPT ![i].minz = colz] ELSE lines)
                      ELSE (IF RLt(RInt(zmin), colz)
                            THEN [lines EXCEPT ![i].maxz = colz] ELSE lines)

(* the body of the inner loop of ClipFrustumLines for fli = lines[i] and
   fli2 = lines[j] *)
ClipPair(lines, i, j, zmin, zmax) ==
    IF i = j THEN lines
    ELSE LET dbase == RSub(lines[i].base, lines[j].base)
             ddir  == RSub(lines[i].dir, lines[j].dir)
         IN  IF ddir.n = 0 THEN lines
             ELSE LET colz == RNeg(RDiv(dbase, ddir))
                  IN  IF lines[j].sign * ddir.n > 0
                      THEN (IF RLt(lines[i].minz, colz) /\ RLt(colz, RInt(zmax))
                            THEN [lines EXCEPT ![i].minz = colz] ELSE lines)
                      ELSE (IF RLt(colz, lines[i].maxz) /\ RLt(RInt(zmin), colz)
                            THEN [lines EXCEPT ![i].maxz = colz] ELSE lines)

RECURSIVE ClipLoop(_, _, _, _, _)
ClipLoop(lines, i, j, zmin, zmax) ==
    IF i > Len(lines) THEN lines
    ELSE IF j > Len(lines) THEN ClipLoop(lines, i + 1, 1, zmin, zmax)
    ELSE ClipLoop(ClipPair(lines, i, j, zmin, zmax), i, j + 1, zmin, zmax)

(* CCamera::ClipFrustumLines *)
ClipFrustumLines(cam, neg, zmin, zmax) ==
    IF neg
    THEN [cam EXCEPT !.negFrustumSides = ClipLoop(@, 1, 1, zmin, zmax)]
    ELSE [cam EXCEPT !.posFrustumSides = ClipLoop(@, 1, 1, zmin, zmax)]

----------------------------------------------------------------------------
(* Operations                                                              *)

GetFrustumSidesStep(c, miny, maxy, scale, negSide) ==
    /\ \A i \in 1..FRUSTUM_PLANE_CNT : cams[c].frustumPlanes[i] # ZeroVector
    /\ cams' = [cams EXCEPT ![c] = GetFrustumSides(@, miny, maxy, scale, negSide)]
    /\ hist' = [Did(hist) EXCEPT !.sides = [n |-> @.n + 1, negSide |-> negSide]]
    /\ UNCHANGED <<zNear, viewRange, env, ret>>

ClipFrustumLinesStep(c, neg, zmin, zmax) ==
    /\ cams' = [cams EXCEPT ![c] = ClipFrustumLines(@, neg, zmin, zmax)]
    /\ hist' = [Did(hist) EXCEPT
                  !.clip = [ n |-> @.n + 1, neg |-> neg, zmin |-> zmin, zmax |-> zmax,
                             ordered |-> @.ordered /\ zmin <= zmax,
                             lines |-> IF neg THEN cams[c].negFrustumSides
                                              ELSE cams[c].posFrustumSides,
                             other |-> IF neg THEN cams[c].posFrustumSides
                                              ELSE cams[c].negFrustumSides ]]
    /\ UNCHANGED <<zNear, viewRange, env, ret>>

(* the cameras that are given a position, direction and field of view of
   their own; the culling camera is only written through UpdateFrustum
   (lines 110-112) *)
Steered == {camTypes[CAMTYPE_PLAYER], camTypes[CAMTYPE_SHADOW]}

Init ==
    /\ cams = [c \in Cameras |-> NewCamera(CtorType(c))]
    /\ zNear = NEAR_PLANE
    /\ viewRange = RInt(MAX_VIEW_RANGE)
    /\ env = DefaultEnv
    /\ ret = NoRet
    /\ hist = NoHist

DoUpdate ==
    /\ hist.n < MaxOps
    /\ \E c \in Cameras, d \in BOOLEAN, h \in MinHeights : Update(c, d, h)

DoSetFov ==
    /\ hist.n < MaxOps
    /\ \E c \in Steered, f \in Fovs : SetFovStep(c, f)

DoSetDir ==
    /\ hist.n < MaxOps
    /\ \E c \in Steered, d \in Dirs : SetDirStep(c, d)

DoSetPos ==
    /\ hist.n < MaxOps
    /\ \E c \in Steered, p \in Positions : SetPosStep(c, p)

Next == DoUpdate \/ DoSetFov \/ DoSetDir \/ DoSetPos

Spec == Init /\ [][Next]_vars

----------------------------------------------------------------------------
(* The footprint of the player camera: the camera is steered and updated,
   its footprint is extracted and clipped                                  *)

camP == camTypes[CAMTYPE_PLAYER]

SidesUpdate ==
    /\ hist.n < MaxSideOps
    /\ \E d \in BOOLEAN, h \in MinHeights : Update(camP, d, h)

SidesSetFov ==
    /\ hist.n < MaxSideOps
    /\ \E f \in Fovs : SetFovStep(camP, f)

SidesSetDir ==
    /\ hist.n < MaxSideOps
    /\ \E d \in Dirs : SetDirStep(camP, d)

SidesSetPos ==
    /\ hist.n < MaxSideOps
    /\ \E p \in Positions : SetPosStep(camP, p)

SidesGet ==
    /\ hist.n < MaxSideOps
    /\ \E a \in SideArgs, negSide \in BOOLEAN :
          GetFrustumSidesStep(camP, a[1], a[2], a[3], negSide)

SidesClip ==
    /\ hist.n < MaxSideOps
    /\ \E neg \in BOOLEAN, z \in ClipArgs : ClipFrustumLinesStep(camP, neg, z[1], z[2])

SidesNext ==
    SidesUpdate \/ SidesSetFov \/ SidesSetDir \/ SidesSetPos \/ SidesGet \/ SidesClip

SpecSides == Init /\ [][SidesNext]_vars

----------------------------------------------------------------------------
(* ClipFrustumLines on drawn sequences of lines                            *)

MakeLine(d, b, sg) ==
    [ dir |-> RInt(d), base |-> RInt(b), sign |-> sg,
      minz |-> RInt(0 - MapY), maxz |-> RInt(MapY * SQUARE_SIZE + MapY) ]

LineSet == {MakeLine(d, b, sg) : d \in {-1, 1}, b \in {0, 10}, sg \in {-1, 1}}

LineSeqs == UNION {[1..k -> LineSet] : k \in 0..MaxLines}

ClipInit ==
    /\ cams \in { [c \in Cameras |->
                     IF c = camP
                     THEN [NewCamera(CtorType(c)) EXCEPT
                             !.negFrustumSides = L,
                             !.posFrustumSides = <<MakeLine(-1, 10, -1), MakeLine(1, 0, -1)>>]
                     ELSE NewCamera(CtorType(c))] : L \in LineSeqs }
    /\ zNear = NEAR_PLANE
    /\ viewRange = RInt(MAX_VIEW_RANGE)
    /\ env = DefaultEnv
    /\ ret = NoRet
    /\ hist = NoHist

ClipCall ==
    /\ hist.n < MaxClipCalls
    /\ \E neg \in BOOLEAN, z \in ClipArgs : ClipFrustumLinesStep(camP, neg, z[1], z[2])

SpecClip == ClipInit /\ [][ClipCall]_vars

----------------------------------------------------------------------------
(* Camera movement                                                         *)

(* a float: the sign is held apart from the magnitude, because zero has a
   sign and std::copysign reads it *)
Flt(r) == [neg |-> r.n < 0, mag |-> [n |-> Abs(r.n), d |-> r.d]]

FVal(f) == IF f.neg THEN RNeg(f.mag) ELSE f.mag

FNeg(f) == [f EXCEPT !.neg = ~@]

FAbs(f) == [f EXCEPT !.neg = FALSE]

CopySign(m, s) == [m EXCEPT !.neg = s.neg]

(* a zero sum is -0 only when both terms are -0 *)
FAdd(a, b) ==
    LET sum == RAdd(FVal(a), FVal(b))
    IN  IF sum.n = 0 THEN [neg |-> a.neg /\ b.neg, mag |-> RInt(0)] ELSE Flt(sum)

FSub(a, b) == FAdd(a, FNeg(b))

FMul(a, b) == [neg |-> a.neg # b.neg, mag |-> RMul(a.mag, b.mag)]

Clamp(v, lo, hi) == MinI(hi, MaxI(lo, v))

ClampR(v, lo, hi) == IF RLt(v, lo) THEN lo ELSE IF RLt(hi, v) THEN hi ELSE v

MoveKeys == {"FWD", "BCK", "LFT", "RGT", "UP", "DWN", "FST", "SLW"}

GetMoveDistance(cam, e, idx) ==
    LET camDeltaTime == RInt(e.lastFrameTime)
        slowed == RSub(RInt(1), RMul(RInt(cam.movState["SLW"]), Rat(9, 10)))
        speed  == RMul(slowed, RAdd(RInt(1), RMul(RInt(cam.movState["FST"]), RInt(9))))
        camMoveSpeed ==
            CASE idx = "UP"  -> RMul(speed, RInt(cam.movState[idx]))
              [] idx = "DWN" -> RMul(speed, RInt(0 - cam.movState[idx]))
              [] OTHER       -> speed
    IN  [ time |-> camDeltaTime, speed |-> speed,
          dist |-> RMul(RMul(camDeltaTime, Rat(2, 10)), camMoveSpeed) ]

ScreenW(e) == IF e.dualScreenMode THEN e.viewSizeX * 2 ELSE e.viewSizeX

(* std::max<int>(1, screen * width): the product is cut to an int *)
Border(screen, width) == MaxI(1, (screen * width.n) \div width.d)

(* the clamped cursor, or minus its distance to the far edge when that is
   the nearer one *)
DistToEdge(last, screen) ==
    LET d    == Flt(RInt(Clamp(last, 0, screen)))
        rest == FSub(Flt(RInt(screen - 1)), d)
    IN  IF RLt(FVal(rest), FVal(d)) THEN FNeg(rest) ELSE d

EdgeMove(dist, border, dynamic) ==
    LET move == IF dynamic
                THEN Flt(ClampR(RDiv(RSub(RInt(border), dist.mag), RInt(border)),
                                RInt(0), RInt(1)))
                ELSE Flt(RInt(IF RLt(dist.mag, RInt(border)) THEN 1 ELSE 0))
    IN  CopySign(move, dist)

GetMoveVectorFromState(cam, e, fromKeyState) ==
    LET md   == GetMoveDistance(cam, e, "NONE")
        step == Flt(RMul(md.time, Rat(1, 1000)))
        key(k) == FMul(step, Flt(RInt(cam.movState[k])))
        zero == Flt(RInt(0))
        screenH == e.viewSizeY
        screenW == ScreenW(e)
        borderX == Border(screenW, e.EdgeMoveWidth)
        borderY == Border(screenH, e.EdgeMoveWidth)
        distX == FNeg(DistToEdge(e.lastx, screenW))
        distY == DistToEdge(e.lasty, screenH)
    IN  IF fromKeyState
        THEN << FSub(FAdd(zero, key("RGT")), key("LFT")),
                FSub(FAdd(zero, key("FWD")), key("BCK")),
                Flt(md.speed) >>
        ELSE << FMul(step, EdgeMove(distX, borderX, e.EdgeMoveDynamic)),
                FMul(step, EdgeMove(distY, borderY, e.EdgeMoveDynamic)),
                Flt(md.speed) >>

GetMoveVectorFromStateStep(c, fromKeyState) ==
    /\ ret' = [ op |-> IF fromKeyState THEN "keys" ELSE "mouse",
                v  |-> GetMoveVectorFromState(cams[c], env, fromKeyState) ]
    /\ UNCHANGED <<cams, zNear, viewRange, env, hist>>

(* the inputs of a movement query: screen, cursor, configuration, keys *)
ViewSizes == {1000, 30}

MouseXs == {-3, 0, 10, 500, 998, 999, 1000, 1003}

MouseYs == {0, 500, 999}

EdgeMoveWidths == {Rat(2, 100), Rat(0, 1)}

MovStates == {NoMove} \cup {[NoMove EXCEPT ![k] = 1] : k \in MoveKeys}

MoveEnvs ==
    [ viewSizeX : ViewSizes, viewSizeY : {1000}, dualScreenMode : BOOLEAN,
      lastx : MouseXs, lasty : MouseYs, lastFrameTime : {16},
      EdgeMoveWidth : EdgeMoveWidths, EdgeMoveDynamic : BOOLEAN ]

MoveInit ==
    /\ cams \in { [c \in Cameras |->
                     IF c = camP
                     THEN [NewCamera(CtorType(c)) EXCEPT !.movState = m]
                     ELSE NewCamera(CtorType(c))] : m \in MovStates }
    /\ zNear = NEAR_PLANE
    /\ viewRange = RInt(MAX_VIEW_RANGE)
    /\ env \in MoveEnvs
    /\ ret = NoRet
    /\ hist = NoHist

MoveNext == \E fromKeyState \in BOOLEAN : GetMoveVectorFromStateStep(camP, fromKeyState)

SpecMove == MoveInit /\ [][MoveNext]_vars

----------------------------------------------------------------------------
(* Properties of the camera system                                         *)

camV == camTypes[CAMTYPE_VISCUL]

(* C1: once a camera of role player or shadow has run UpdateFrustum, the
   culling camera's planes, forward/right/up, position and rotation are
   those the most recent such camera had at the end of its run. *)
C1_LastWriterWins ==
    hist.fsCam # None => Snap(cams[camV]) = hist.fsSnap

(* the shadow camera wrote last, with planes computed, while the player
   camera's state is a different one *)
C1_Witness ==
    /\ hist.fsCam = camTypes[CAMTYPE_SHADOW]
    /\ hist.fsSnap = Snap(cams[camTypes[CAMTYPE_SHADOW]])
    /\ hist.fsSnap # Snap(cams[camTypes[CAMTYPE_PLAYER]])
    /\ cams[camV].frustumPlanes[FRUSTUM_PLANE_TOP] # ZeroVector
    /\ cams[camV].pos # NewCamera(CAMTYPE_VISCUL).pos

(* C2: a step in which a camera whose role is neither player nor shadow
   runs Update leaves the culling camera's planes and orientation as they
   were; the culling camera itself is such a camera. *)
C2_OnlyDriversWrite ==
    [][ \A c \in Cameras :
          ( /\ ~IsDriver(cams[c])
            /\ \E d \in BOOLEAN, h \in MinHeights : Update(c, d, h) )
          => Snap(cams'[camV]) = Snap(cams[camV]) ]_vars

(* C3: exactly the camera in the culling slot reports the culling role. *)
C3_OneCullingCamera ==
    \A t \in CamTypeSet : (cams[camTypes[t]].camType = CAMTYPE_VISCUL) <=> (t = CAMTYPE_VISCUL)

(* C4: the box test accepts the zero-size box at the camera position,
   whatever the planes are. *)
C4_BoxAtCamera ==
    \A c \in Cameras :
       (\A i \in 1..FRUSTUM_PLANE_CNT : cams[c].frustumPlanes[i] # ZeroVector)
         => InViewBox(cams[c], cams[c].pos, cams[c].pos)

(* C5: after ComputeViewRange zFar / zNear = MAX_VIEW_RANGE / NEAR_PLANE,
   both being the reference values times wantedViewRange / MAX_VIEW_RANGE. *)
C5_RangeRatio ==
    hist.vrIn.cam # None =>
      LET w == WantedViewRange(hist.vrIn.pos, hist.vrIn.forward, hist.vrIn.minHeight)
          factor == RDiv(w, RInt(MAX_VIEW_RANGE))
      IN  /\ RMul(viewRange, NEAR_PLANE) = RMul(zNear, RInt(MAX_VIEW_RANGE))
          /\ zNear = RMul(NEAR_PLANE, factor)
          /\ viewRange = RMul(RInt(MAX_VIEW_RANGE), factor)

(* a range computed from an altitude above the terrain minimum, larger
   than the reference range *)
C5_Witness ==
    /\ hist.vrIn.cam # None
    /\ hist.vrIn.minHeight > 0
    /\ RLt(RInt(MAX_VIEW_RANGE), viewRange)
    /\ RLt(NEAR_PLANE, zNear)

(* the sphere rule of the visibility tests, for a given far range *)
SphereRule(cam, farRange, p, radius) ==
    /\ \A i \in 1..FRUSTUM_PLANE_CNT :
          ~DotExceeds(VSub(p, cam.pos), cam.frustumPlanes[i], radius)
    /\ RLe(RInt(SqLength(VSub(p, cam.pos))),
           RMul(RAdd(farRange, RInt(radius)), RAdd(farRange, RInt(radius))))

(* C10 as claimed: while camera a's position and planes stay the same, the
   Update of another camera b, run after a's own, does not change a's
   sphere test. *)
C10_OwnFarRange ==
    [][ \A a \in Cameras, b \in Cameras :
          ( /\ a # b
            /\ hist.vrIn.cam # None
            /\ hist.vrIn.cam = a
            /\ \E d \in BOOLEAN, h \in MinHeights : Update(b, d, h)
            /\ cams'[a].pos = cams[a].pos
            /\ cams'[a].frustumPlanes = cams[a].frustumPlanes )
          => \A o \in Offsets, r \in Radii :
               InViewSphere(cams'[a], viewRange', VAdd(cams[a].pos, o), r)
                 = InViewSphere(cams[a], viewRange, VAdd(cams[a].pos, o), r) ]_vars

(* C10 amended: every camera's sphere test uses the one global far range,
   the wanted range of the most recent Update of any camera. *)
C10_GlobalFarRange ==
    hist.vrIn.cam # None =>
      \A a \in Cameras, o \in Offsets, r \in Radii :
         InViewSphere(cams[a], viewRange, VAdd(cams[a].pos, o), r)
           = SphereRule(cams[a],
                        WantedViewRange(hist.vrIn.pos, hist.vrIn.forward, hist.vrIn.minHeight),
                        VAdd(cams[a].pos, o), r)

(* a camera accepts a point beyond the reference range because another
   camera's Update widened the range *)
C10_Witness ==
    /\ hist.vrIn.cam # None
    /\ \E a \in Cameras \ {hist.vrIn.cam}, o \in Offsets, r \in Radii :
         /\ InViewSphere(cams[a], viewRange, VAdd(cams[a].pos, o), r)
         /\ SqLength(o) > Square(MAX_VIEW_RANGE + r)
         /\ cams[a].viewport # <<0, 0, 0, 0>>

----------------------------------------------------------------------------
(* Properties of the footprint                                             *)

(* the rule for one line: its crossings with the other lines, taken in
   list order, tighten its zMin or its zMax *)
RECURSIVE RefTighten(_, _, _, _, _, _)
RefTighten(cur, lines, i, j, zmin, zmax) ==
    IF j > Len(lines) THEN cur
    ELSE IF j = i \/ lines[i].dir = lines[j].dir
    THEN RefTighten(cur, lines, i, j + 1, zmin, zmax)
    ELSE LET crossZ == RNeg(RDiv(RSub(lines[i].base, lines[j].base),
                                 RSub(lines[i].dir, lines[j].dir)))
             raises == \/ lines[j].sign > 0 /\ RLt(lines[j].dir, lines[i].dir)
                       \/ lines[j].sign < 0 /\ RLt(lines[i].dir, lines[j].dir)
             nxt == IF raises
                    THEN (IF RLt(cur.minz, crossZ) /\ RLt(crossZ, RInt(zmax))
                          THEN [cur EXCEPT !.minz = crossZ] ELSE cur)
                    ELSE (IF RLt(crossZ, cur.maxz) /\ RLt(RInt(zmin), crossZ)
                          THEN [cur EXCEPT !.maxz = crossZ] ELSE cur)
         IN  RefTighten(nxt, lines, i, j + 1, zmin, zmax)

RefClip(lines, zmin, zmax) ==
    [i \in 1..Len(lines) |-> RefTighten(lines[i], lines, i, 1, zmin, zmax)]

Chosen(cam, neg) == IF neg THEN cam.negFrustumSides ELSE cam.posFrustumSides

ExampleLines == <<MakeLine(1, 0, 1), MakeLine(-1, 10, -1)>>

(* C7: ClipFrustumLines leaves the chosen sequence as the rule gives it and
   the other sequence as it was; the lines (1, 0, +1) and (-1, 10, -1) cross
   at 5, which the sign rule makes the zMax of both. *)
C7_ClipIsRule ==
    /\ hist.clip.n > 0 =>
         /\ Chosen(cams[camP], hist.clip.neg)
              = RefClip(hist.clip.lines, hist.clip.zmin, hist.clip.zmax)
         /\ Chosen(cams[camP], ~hist.clip.neg) = hist.clip.other
    /\ ClipLoop(ExampleLines, 1, 1, 0, 8)
         = << [ExampleLines[1] EXCEPT !.maxz = RInt(5)],
              [ExampleLines[2] EXCEPT !.maxz = RInt(5)] >>

(* the example lines were clipped, and a sequence with two lines of equal
   slope was left as it was *)
C7_Witness ==
    /\ hist.clip.n > 0
    /\ hist.clip.neg
    /\ hist.clip.lines = ExampleLines
    /\ cams[camP].negFrustumSides[1].maxz = RInt(5)
    /\ cams[camP].negFrustumSides[2].maxz = RInt(5)
    /\ cams[camP].negFrustumSides[1].minz = ExampleLines[1].minz

(* C8: after GetFrustumSides the two sequences hold 4 lines together; a
   line is in the negative sequence exactly when its sign is +1 or negSide
   was asked for. *)
C8_FourLines ==
    hist.sides.n > 0 =>
      LET cam == cams[camP]
      IN  /\ Len(cam.posFrustumSides) + Len(cam.negFrustumSides) = FRUSTUM_PLANE_CNT
          /\ \A k \in 1..Len(cam.negFrustumSides) :
                cam.negFrustumSides[k].sign = 1 \/ hist.sides.negSide
          /\ \A k \in 1..Len(cam.posFrustumSides) :
                cam.posFrustumSides[k].sign # 1 /\ ~hist.sides.negSide
          /\ hist.sides.negSide => cam.posFrustumSides = <<>>

(* a second call, with lines on both sides *)
C8_Witness ==
    /\ hist.sides.n >= 2
    /\ cams[camP].posFrustumSides # <<>>
    /\ cams[camP].negFrustumSides # <<>>

Ordered(line) == RLe(line.minz, line.maxz)

(* C9 as claimed: with zmin <= zmax in every call, every line keeps
   zMin <= zMax. *)
C9_RangeStaysOrdered ==
    hist.clip.ordered =>
      /\ \A k \in 1..Len(cams[camP].negFrustumSides) : Ordered(cams[camP].negFrustumSides[k])
      /\ \A k \in 1..Len(cams[camP].posFrustumSides) : Ordered(cams[camP].posFrustumSides[k])

Tightened(old, new, zmin, zmax) ==
    /\ new.dir = old.dir /\ new.base = old.base /\ new.sign = old.sign
    /\ RLe(old.minz, new.minz)
    /\ RLe(new.maxz, old.maxz)
    /\ new.minz # old.minz => RLt(new.minz, RInt(zmax))
    /\ new.maxz # old.maxz => RLt(RInt(zmin), new.maxz)

(* C9 amended: a call of ClipFrustumLines never lowers a line's zMin nor
   raises its zMax; a zMin it raises is below the call's zmax, a zMax it
   lowers is above the call's zmin. *)
C9_Monotone ==
    [][ hist'.clip.n = hist.clip.n + 1 =>
          /\ Len(cams'[camP].negFrustumSides) = Len(cams[camP].negFrustumSides)
          /\ Len(cams'[camP].posFrustumSides) = Len(cams[camP].posFrustumSides)
          /\ \A k \in 1..Len(cams[camP].negFrustumSides) :
                Tightened(cams[camP].negFrustumSides[k], cams'[camP].negFrustumSides[k],
                          hist'.clip.zmin, hist'.clip.zmax)
          /\ \A k \in 1..Len(cams[camP].posFrustumSides) :
                Tightened(cams[camP].posFrustumSides[k], cams'[camP].posFrustumSides[k],
                          hist'.clip.zmin, hist'.clip.zmax) ]_vars

(* calls with zmin <= zmax have left a line with zMin raised above its
   lowered zMax *)
C9_Witness ==
    /\ hist.clip.n > 0
    /\ hist.clip.ordered
    /\ \E k \in 1..Len(cams[camP].negFrustumSides) :
          LET line == cams[camP].negFrustumSides[k]
          IN  /\ RLt(RInt(0 - MapY), line.minz)
              /\ RLt(line.maxz, RInt(MapY * SQUARE_SIZE + MapY))
              /\ RLt(line.maxz, line.minz)

----------------------------------------------------------------------------
(* Properties of camera movement                                           *)

(* C6: with the cursor driving the camera and EdgeMoveDynamic off, a cursor
   whose clamped x is at least screenW - 1 gives the x-component
   +(frameTime * 0.001). *)
C6_RightEdgeStep ==
    /\ ret.op = "mouse"
    /\ ~env.EdgeMoveDynamic
    /\ Clamp(env.lastx, 0, ScreenW(env)) >= ScreenW(env) - 1
    => ret.v[1] = [neg |-> FALSE, mag |-> Rat(env.lastFrameTime, 1000)]

====
